---- MODULE Spec2Model ----
(***************************************************************************)
(* Model of tr4ck: the persisted registry of tracked repositories          *)
(* (cli/registry.go) and the sync run that walks it (main.go, sync Run).    *)
(*                                                                          *)
(* Strings are sequences of one-character strings, so that the registry     *)
(* line format, strings.Fields, strings.Contains and filepath.Ext are       *)
(* computed the way the code computes them.  The registry file is a         *)
(* sequence of lines (each written with a trailing newline by the code).    *)
(*                                                                          *)
(* The version-control backend (go-git) is the environment: cloning,        *)
(* resolving HEAD, resolving the default branch and computing a patch       *)
(* either fail or answer from the repository's linear history.              *)
(*                                                                          *)
(* Five specifications: Spec is the program with its commands and the       *)
(* sync run; StoreSpec is the registry store alone (load, update, init and  *)
(* the line format) over files of any content; ScanSpec is one call of the  *)
(* change classification, of the file scanner, of a scan or of the history  *)
(* walk; RaceSpec is two invocations interleaving on the registry file;     *)
(* RerunSpec is two sync runs one after the other.                          *)
(***************************************************************************)
EXTENDS Integers, Sequences, FiniteSets, TLC

----------------------------------------------------------------------------
(* Bounds                                                                   *)

\* number of revisions in each repository's linear history
MaxRev == 3

----------------------------------------------------------------------------
(* Strings                                                                  *)

EmptyStr == << >>

\* the separator written between the fields of a registry line
FieldSep == <<" ", " ", " ", " ">>

\* unicode.IsSpace restricted to the characters that occur in a line
IsSpace(c) == c \in {" ", "\t"}

\* strings.Contains(s, sub)
Contains(s, sub) ==
    \E i \in 0..(Len(s) - Len(sub)) : SubSeq(s, i + 1, i + Len(sub)) = sub

RECURSIVE FieldsFrom(_, _, _, _)
FieldsFrom(s, i, cur, acc) ==
    IF i > Len(s)
    THEN IF cur = EmptyStr THEN acc ELSE Append(acc, cur)
    ELSE IF IsSpace(s[i])
         THEN FieldsFrom(s, i + 1, EmptyStr,
                         IF cur = EmptyStr THEN acc ELSE Append(acc, cur))
         ELSE FieldsFrom(s, i + 1, Append(cur, s[i]), acc)

\* strings.Fields(s): the maximal runs of non-space characters
Fields(s) == FieldsFrom(s, 1, EmptyStr, << >>)

RECURSIVE TrimLeft(_)
TrimLeft(s) ==
    IF s # EmptyStr /\ Head(s) = " " THEN TrimLeft(Tail(s)) ELSE s

RECURSIVE TrimRight(_)
TrimRight(s) ==
    IF s # EmptyStr /\ s[Len(s)] = " "
    THEN TrimRight(SubSeq(s, 1, Len(s) - 1)) ELSE s

\* strings.Trim(s, " "): only the space character is cut, not the tab
Trim(s) == TrimRight(TrimLeft(s))

RECURSIVE Join(_)
\* strings.Join(parts, " ")
Join(parts) ==
    IF parts = << >> THEN EmptyStr
    ELSE IF Len(parts) = 1 THEN parts[1]
    ELSE parts[1] \o <<" ">> \o Join(Tail(parts))

----------------------------------------------------------------------------
(* Repositories and revisions                                               *)

U1 == <<"u">>
U2 == <<"u", "v">>
U3 == <<"w", " ", "x">>

\* the repository locations a user passes to `registry add`
URIs == {U1, U2, U3}

\* first character of the revision identifiers of each repository
RepoTag(u) == IF u = U1 THEN "a" ELSE IF u = U2 THEN "b" ELSE "c"

Digit == <<"1", "2", "3", "4", "5", "6", "7", "8", "9">>

\* identifier of the n-th revision of repository u (commit.Hash.String())
HashAt(u, n) == <<RepoTag(u), Digit[n]>>

\* position of a revision identifier in the history of u, 0 when it is not
\* a commit of u (the zero hash made by plumbing.NewHash("") included)
RevIndex(u, h) ==
    IF \E n \in 1..Len(Digit) : HashAt(u, n) = h
    THEN CHOOSE n \in 1..Len(Digit) : HashAt(u, n) = h
    ELSE 0

----------------------------------------------------------------------------
(* Registry store                                                           *)

RegistryRecord(root, latest, uri) ==
    [RootHash |-> root, LastestHash |-> latest, URI |-> uri]

\* fmt.Sprintf("%s    %s    %s\n", ...) without the line terminator
FormatRecord(rec) ==
    rec.RootHash \o FieldSep \o rec.LastestHash \o FieldSep \o rec.URI

\* one iteration of the loop of loadRegistry
ParseLine(line) ==
    LET parts == Fields(line) IN
    IF Len(parts) > 3 THEN [err |-> "ParseError"]
    ELSE IF Len(parts) = 1
    THEN [err |-> "", rec |-> RegistryRecord(EmptyStr, EmptyStr, Trim(line))]
    ELSE IF Len(parts) = 2
    THEN [err |-> "", rec |-> RegistryRecord(parts[1], EmptyStr, Join(Tail(parts)))]
    ELSE IF Len(parts) = 3
    THEN [err |-> "", rec |-> RegistryRecord(parts[1], parts[2], Join(Tail(Tail(parts))))]
    ELSE [err |-> "Panic"]   \* no field at all: parts[0] is out of range

RECURSIVE loadFrom(_, _)
loadFrom(lines, acc) ==
    IF lines = << >> THEN [err |-> "", records |-> acc]
    ELSE LET p == ParseLine(Head(lines)) IN
         IF p.err # "" THEN [err |-> p.err, records |-> << >>]
         ELSE loadFrom(Tail(lines), Append(acc, p.rec))

\* loadRegistry(): the records of the file in file order, or an error
loadRegistry(exists, lines) ==
    IF ~exists THEN [err |-> "OpenError", records |-> << >>]
    ELSE loadFrom(lines, << >>)

\* uriInRegistry comparing the URI field of each line instead of searching
\* the line
uriInRegistry_exact(lines, uri) ==
    \E i \in 1..Len(lines) :
        ParseLine(lines[i]).err = "" /\ ParseLine(lines[i]).rec.URI = uri

\* the scanner loop that looks for the URI in the lines of the file (the
\* same loop opens appendToRegistry and addToRegistry)
uriInRegistry(lines, uri) ==
    \E i \in 1..Len(lines) : Contains(lines[i], uri)

\* appendToRegistry(record)
appendToRegistry(exists, lines, rec) ==
    IF ~exists THEN [err |-> "OpenError", lines |-> lines]
    ELSE IF uriInRegistry(lines, rec.URI)
    THEN [err |-> "DuplicateError", lines |-> lines]
    ELSE [err |-> "", lines |-> Append(lines, FormatRecord(rec))]

\* addToRegistry leaving LastestHash unset
addToRegistry_nolatest(exists, lines, uri, root) ==
    IF ~exists THEN [err |-> "OpenError", lines |-> lines]
    ELSE IF uriInRegistry(lines, uri)
    THEN [err |-> "DuplicateError", lines |-> lines]
    ELSE IF root = EmptyStr
    THEN [err |-> "BackendError", lines |-> lines]
    ELSE appendToRegistry(exists, lines, RegistryRecord(root, EmptyStr, uri))

\* addToRegistry(uri); root is the answer of getRootHashFromFirstCommit,
\* EmptyStr when it failed
addToRegistry(exists, lines, uri, root) ==
    IF ~exists THEN [err |-> "OpenError", lines |-> lines]
    ELSE IF uriInRegistry(lines, uri)
    THEN [err |-> "DuplicateError", lines |-> lines]
    ELSE IF root = EmptyStr
    THEN [err |-> "BackendError", lines |-> lines]
    ELSE appendToRegistry(exists, lines, RegistryRecord(root, root, uri))

\* FirstMatch taking a record whose URI contains uri
FirstMatch_substring(records, uri) ==
    IF \E i \in 1..Len(records) : Contains(records[i].URI, uri)
    THEN CHOOSE i \in 1..Len(records) :
            /\ Contains(records[i].URI, uri)
            /\ \A j \in 1..(i - 1) : ~Contains(records[j].URI, uri)
    ELSE 0

\* index of the first record whose URI equals uri, 0 when there is none
FirstMatch(records, uri) ==
    IF \E i \in 1..Len(records) : records[i].URI = uri
    THEN CHOOSE i \in 1..Len(records) :
            /\ records[i].URI = uri
            /\ \A j \in 1..(i - 1) : records[j].URI # uri
    ELSE 0

\* updateRegistry adding the record at the end instead of replacing it
updateRegistry_append(exists, lines, rec) ==
    LET ld == loadRegistry(exists, lines)
        i  == FirstMatch(ld.records, rec.URI)
    IN  IF ld.err # "" THEN [err |-> "LoadError", lines |-> lines]
        ELSE IF i = 0 THEN [err |-> "NotFoundError", lines |-> lines]
        ELSE [err |-> "",
              lines |-> [k \in 1..Len(ld.records) |-> FormatRecord(ld.records[k])]
                        \o <<FormatRecord(rec)>>]

\* updateRegistry writing the latest hash into the root field
updateRegistry_rootmix(exists, lines, rec) ==
    LET ld == loadRegistry(exists, lines)
        i  == FirstMatch(ld.records, rec.URI)
        recs == [ld.records EXCEPT ![i] =
                    RegistryRecord(rec.LastestHash, rec.LastestHash, rec.URI)]
    IN  IF ld.err # "" THEN [err |-> "LoadError", lines |-> lines]
        ELSE IF i = 0 THEN [err |-> "NotFoundError", lines |-> lines]
        ELSE [err |-> "", lines |-> [k \in 1..Len(recs) |-> FormatRecord(recs[k])]]

\* updateRegistry replacing every record that has the URI
updateRegistry_all(exists, lines, rec) ==
    LET ld == loadRegistry(exists, lines)
        i  == FirstMatch(ld.records, rec.URI)
        recs == [k \in 1..Len(ld.records) |->
                    IF ld.records[k].URI = rec.URI
                    THEN RegistryRecord(rec.RootHash, rec.LastestHash, rec.URI)
                    ELSE ld.records[k]]
    IN  IF ld.err # "" THEN [err |-> "LoadError", lines |-> lines]
        ELSE IF i = 0 THEN [err |-> "NotFoundError", lines |-> lines]
        ELSE [err |-> "", lines |-> [k \in 1..Len(recs) |-> FormatRecord(recs[k])]]

\* updateRegistry(rec)
updateRegistry(exists, lines, rec) ==
    LET ld == loadRegistry(exists, lines)
        i  == FirstMatch(ld.records, rec.URI)
        recs == [ld.records EXCEPT ![i] =
                    RegistryRecord(rec.RootHash, rec.LastestHash, rec.URI)]
    IN  IF ld.err # "" THEN [err |-> "LoadError", lines |-> lines]
        ELSE IF i = 0 THEN [err |-> "NotFoundError", lines |-> lines]
        ELSE [err |-> "", lines |-> [k \in 1..Len(recs) |-> FormatRecord(recs[k])]]

----------------------------------------------------------------------------
(* Change sets and marker scanning                                          *)

\* markers searched for when no configuration file changes them
markers == << <<"t", "r", "@", "c", "k">>, <<"t", "o", "d", "o">>,
              <<"f", "i", "x", "m", "e">> >>

\* extensions that are not tracked
ignoredExtensions ==
    { <<".", "j", "s", "o", "n">>, <<".", "y", "a", "m", "l">>,
      <<".", "y", "m", "l">>, <<".", "s", "u", "m">>,
      <<".", "m", "o", "d">>, <<".", "h", "t", "m", "l">> }

RECURSIVE ExtFrom(_, _)
ExtFrom(path, i) ==
    IF i < 1 \/ path[i] = "/" THEN EmptyStr
    ELSE IF path[i] = "." THEN SubSeq(path, i, Len(path))
    ELSE ExtFrom(path, i - 1)

\* filepath.Ext(path): from the last dot of the last path element
Ext(path) == ExtFrom(path, Len(path))

PathGo   == <<"a", ".", "g", "o">>
PathJson == <<"c", ".", "j", "s", "o", "n">>

\* paths the backend reports in patches
Paths == {PathGo, PathJson}

\* a file patch: from and to are << >> (nil) or <<path>>
FilePatches ==
    { [from |-> f, to |-> t] :
        f \in {<< >>} \cup { <<p>> : p \in Paths },
        t \in {<< >>} \cup { <<p>> : p \in Paths } }
    \ { [from |-> << >>, to |-> << >>] }

\* the patches the backend answers with during a sync run: no file patch,
\* any single file patch, and two file patches that change two files, that
\* change one and remove one, or that rename a file changed before
SyncPatches ==
    { << >> } \cup { <<fp>> : fp \in FilePatches }
    \cup { << [from |-> <<PathGo>>, to |-> <<PathGo>>],
              [from |-> <<PathGo>>, to |-> <<PathJson>>] >>,
           << [from |-> <<PathGo>>, to |-> <<PathGo>>],
              [from |-> <<PathJson>>, to |-> << >>] >>,
           << [from |-> <<PathJson>>, to |-> <<PathGo>>],
              [from |-> <<PathGo>>, to |-> <<PathJson>>] >> }

\* the classification loop of listChangedFilesSinceCommit over the file
\* patches of one patch; from.Path() on a nil from panics
RECURSIVE classifyFrom(_, _, _)
classifyFrom(patch, changedFiles, removedFiles) ==
    IF patch = << >>
    THEN [panic |-> FALSE, changed |-> changedFiles, removed |-> removedFiles]
    ELSE
      LET from == Head(patch).from
          to   == Head(patch).to
          rest == Tail(patch)
      IN
      IF from # << >> /\ to # << >> /\ from[1] # to[1]
      THEN \* rename
           IF Ext(from[1]) \in ignoredExtensions
           THEN classifyFrom(rest, changedFiles \ {from[1]}, removedFiles)
           ELSE classifyFrom(rest, (changedFiles \ {from[1]}) \cup {to[1]},
                             removedFiles)
      ELSE IF to # << >>
      THEN \* addition or modification; the filter reads from.Path()
           IF from = << >>
           THEN [panic |-> TRUE, changed |-> {}, removed |-> {}]
           ELSE IF Ext(from[1]) \in ignoredExtensions
           THEN classifyFrom(rest, changedFiles, removedFiles)
           ELSE classifyFrom(rest, changedFiles \cup {to[1]}, removedFiles)
      ELSE IF from # << >>
      THEN \* deletion
           IF Ext(from[1]) \in ignoredExtensions
           THEN classifyFrom(rest, changedFiles, removedFiles)
           ELSE classifyFrom(rest, changedFiles, removedFiles \cup {from[1]})
      ELSE classifyFrom(rest, changedFiles, removedFiles)

\* listChangedFilesSinceCommit without the error return for the new hash
listChangedFilesSinceCommit_nonewcheck(u, oldCommitHash, newCommitHash, patchOK, patch) ==
    IF RevIndex(u, oldCommitHash) = 0 \/ ~patchOK
    THEN [err |-> "BackendError", panic |-> FALSE, changed |-> {}, removed |-> {}]
    ELSE LET c == classifyFrom(patch, {}, {}) IN
         [err |-> "", panic |-> c.panic, changed |-> c.changed,
          removed |-> c.removed]

\* listChangedFilesSinceCommit(repo, oldCommitHash, newCommitHash) for the
\* repository u; patchOK and patch are the backend's answer to Patch
listChangedFilesSinceCommit(u, oldCommitHash, newCommitHash, patchOK, patch) ==
    IF RevIndex(u, oldCommitHash) = 0 \/ RevIndex(u, newCommitHash) = 0
       \/ ~patchOK
    THEN [err |-> "BackendError", panic |-> FALSE, changed |-> {}, removed |-> {}]
    ELSE LET c == classifyFrom(patch, {}, {}) IN
         [err |-> "", panic |-> c.panic, changed |-> c.changed,
          removed |-> c.removed]

\* a file of the working tree: whether it can be read, its lines, and
\* whether its last line ends with a newline
FileContent(readable, lines, eofNewline) ==
    [readable |-> readable, lines |-> lines, eofNewline |-> eofNewline]

LineTodo  == <<"/", "/", " ", "t", "o", "d", "o">>
LinePlain == <<"x">>

Contents ==
    { FileContent(FALSE, << >>, TRUE),
      FileContent(TRUE, <<LinePlain>>, TRUE),
      FileContent(TRUE, <<LinePlain, LineTodo>>, TRUE) }

\* index of the first marker contained in line, 0 when there is none
FirstMarker(line, ms) ==
    IF \E k \in 1..Len(ms) : Contains(line, ms[k])
    THEN CHOOSE k \in 1..Len(ms) :
            /\ Contains(line, ms[k])
            /\ \A j \in 1..(k - 1) : ~Contains(line, ms[j])
    ELSE 0

\* containsMarker(filePath, markers): ReadString('\n') yields the lines that
\* end with a newline; the loop is left at io.EOF
containsMarker(content, ms) ==
    IF ~content.readable THEN [err |-> "IOError", hit |-> FALSE, marker |-> EmptyStr]
    ELSE
      LET n == IF content.eofNewline THEN Len(content.lines)
               ELSE Len(content.lines) - 1
          hitLines == { i \in 1..n : FirstMarker(content.lines[i], ms) # 0 }
      IN  IF hitLines = {}
          THEN [err |-> "", hit |-> FALSE, marker |-> EmptyStr]
          ELSE LET i == CHOOSE i \in hitLines : \A j \in hitLines : i <= j
               IN  [err |-> "", hit |-> TRUE,
                    marker |-> ms[FirstMarker(content.lines[i], ms)]]

\* the scanning loop of listFilesWithMarkersSinceCommit over the changed
\* files in the order the map iteration produced
RECURSIVE scanFrom(_, _, _, _, _)
scanFrom(order, content, ms, hits, scanned) ==
    IF order = << >> THEN [err |-> "", hits |-> hits, scanned |-> scanned]
    ELSE LET file == Head(order)
             r    == containsMarker(content[file], ms)
         IN  IF r.err # ""
             THEN [err |-> r.err, hits |-> {}, scanned |-> scanned \cup {file}]
             ELSE scanFrom(Tail(order), content, ms,
                           IF r.hit THEN hits \cup {file} ELSE hits,
                           scanned \cup {file})

\* the orders in which a set can be iterated
Orders(S) ==
    { o \in [1..Cardinality(S) -> S] : \A i, j \in 1..Cardinality(S) :
                                          i # j => o[i] # o[j] }

\* listFilesWithMarkersSinceCommit going on after a file that cannot be read
listFilesWithMarkersSinceCommit_swallow(u, firstHash, latestHash, patchOK, patch, content, order) ==
    LET d == listChangedFilesSinceCommit(u, firstHash, latestHash, patchOK, patch)
        s == scanFrom(order, content, markers, {}, {})
    IN  IF d.err # "" \/ d.panic
        THEN [err |-> d.err, panic |-> d.panic, diffChanged |-> {},
              filesWithMarkers |-> {}, removed |-> {}, scanned |-> {}]
        ELSE [err |-> "", panic |-> FALSE, diffChanged |-> d.changed,
              filesWithMarkers |-> s.hits, removed |-> d.removed,
              scanned |-> s.scanned]

\* listFilesWithMarkersSinceCommit scanning the removed files as well
listFilesWithMarkersSinceCommit_scanremoved(u, firstHash, latestHash, patchOK, patch, content, order) ==
    LET d == listChangedFilesSinceCommit(u, firstHash, latestHash, patchOK, patch)
        s == scanFrom(order \o (CHOOSE o \in Orders(d.removed) : TRUE),
                      content, markers, {}, {})
    IN  IF d.err # "" \/ d.panic
        THEN [err |-> d.err, panic |-> d.panic, diffChanged |-> {},
              filesWithMarkers |-> {}, removed |-> {}, scanned |-> {}]
        ELSE IF s.err # ""
        THEN [err |-> s.err, panic |-> FALSE, diffChanged |-> d.changed,
              filesWithMarkers |-> {}, removed |-> {}, scanned |-> s.scanned]
        ELSE [err |-> "", panic |-> FALSE, diffChanged |-> d.changed,
              filesWithMarkers |-> s.hits, removed |-> d.removed,
              scanned |-> s.scanned]

\* listFilesWithMarkersSinceCommit(repo, firstHash, latestHash, markers)
listFilesWithMarkersSinceCommit(u, firstHash, latestHash, patchOK, patch, content, order) ==
    LET d == listChangedFilesSinceCommit(u, firstHash, latestHash, patchOK, patch)
        s == scanFrom(order, content, markers, {}, {})
    IN  IF d.err # "" \/ d.panic
        THEN [err |-> d.err, panic |-> d.panic, diffChanged |-> {},
              filesWithMarkers |-> {}, removed |-> {}, scanned |-> {}]
        ELSE IF s.err # ""
        THEN [err |-> s.err, panic |-> FALSE, diffChanged |-> d.changed,
              filesWithMarkers |-> {}, removed |-> {}, scanned |-> s.scanned]
        ELSE [err |-> "", panic |-> FALSE, diffChanged |-> d.changed,
              filesWithMarkers |-> s.hits, removed |-> d.removed,
              scanned |-> s.scanned]

----------------------------------------------------------------------------
(* State                                                                    *)

VARIABLES
    fileExists,   \* the registry file exists
    fileLines,    \* its lines
    head,         \* backend: position of each repository's head
    pc,           \* "idle", or "sync" while a sync run is in its loop
    registry,     \* sync run: the records loaded at the start of the run
    idx,          \* sync run: index of the next record of the loop
    last          \* what the last operation was given, did and returned, and
                  \* the lines of the file before it

vars == <<fileExists, fileLines, head, pc, registry, idx, last>>

\* a line written by the earlier registry format (guid TAB url)
LegacyLine(u, n) == HashAt(u, n) \o <<"\t">> \o u

\* registry files found at start: none, or one left by the earlier format
InitFiles ==
    { [exists |-> FALSE, lines |-> << >>],
      [exists |-> TRUE,  lines |-> <<LegacyLine(U2, 1), U1>>] }

Init ==
    /\ \E f \in InitFiles : fileExists = f.exists /\ fileLines = f.lines
    /\ head = [u \in URIs |-> 1]
    /\ pc = "idle"
    /\ registry = << >>
    /\ idx = 0
    /\ last = [op |-> "none", before |-> fileLines]

\* the repositories that receive new revisions
ActiveRepos == {U1, U2}

\* the repository gains a revision
AdvanceHead ==
    /\ \E u \in ActiveRepos :
          /\ head[u] < MaxRev
          /\ head' = [head EXCEPT ![u] = @ + 1]
    /\ UNCHANGED <<fileExists, fileLines, pc, registry, idx, last>>

\* initRegistry creating the file whether or not it exists
initRegistry_truncate ==
    /\ pc = "idle"
    /\ fileExists' = TRUE
    /\ fileLines' = << >>
    /\ last' = [op |-> "init", existed |-> fileExists, before |-> fileLines]
    /\ UNCHANGED <<head, pc, registry, idx>>

\* `tr4ck init`
initRegistry ==
    /\ pc = "idle"
    /\ fileExists' = TRUE
    /\ fileLines' = IF fileExists THEN fileLines ELSE << >>
    /\ last' = [op |-> "init", existed |-> fileExists, before |-> fileLines]
    /\ UNCHANGED <<head, pc, registry, idx>>

\* `tr4ck registry add uri`
Register ==
    /\ pc = "idle"
    /\ \E uri \in URIs, resolveOK \in BOOLEAN :
          LET root == IF resolveOK THEN HashAt(uri, head[uri]) ELSE EmptyStr
              res  == addToRegistry(fileExists, fileLines, uri, root)
          IN  /\ fileLines' = res.lines
              /\ last' = [op |-> "register", uri |-> uri, root |-> root,
                          err |-> res.err, existed |-> fileExists,
                          before |-> fileLines]
    /\ UNCHANGED <<fileExists, head, pc, registry, idx>>

\* what the backend answers during one iteration of the sync loop
BackendAnswer(cloneOK, headOK, patchOK, patch, content, order) ==
    [cloneOK |-> cloneOK, headOK |-> headOK, patchOK |-> patchOK,
     patch |-> patch, content |-> content, order |-> order]

\* the patches the backend can compute between two revisions of u: none
\* between a revision and itself
PatchesBetween(u, old, new) ==
    IF old = new \/ RevIndex(u, old) = 0 \/ RevIndex(u, new) = 0
    THEN { << >> }
    ELSE SyncPatches

\* the revision the diff starts from (sync Run, firstHash)
FirstHash(record) ==
    IF record.LastestHash = EmptyStr THEN record.RootHash
    ELSE record.LastestHash

BackendAnswers(record, latest) ==
    { BackendAnswer(FALSE, FALSE, FALSE, << >>, << >>, << >>),
      BackendAnswer(TRUE, FALSE, TRUE, << >>, << >>, << >>),
      BackendAnswer(TRUE, TRUE, FALSE, << >>, << >>, << >>) }
    \cup
    UNION { LET c == classifyFrom(p, {}, {}) IN
            { BackendAnswer(TRUE, TRUE, TRUE, p, ct, o) :
                ct \in [c.changed -> Contents], o \in Orders(c.changed) } :
            p \in PatchesBetween(record.URI, FirstHash(record), latest) }

\* isUpToDate comparing the head with the root revision
isUpToDate_root(record, latestHash) == record.RootHash = latestHash

\* isUpToDate falling back to the root revision when LastestHash is empty
isUpToDate_fallback(record, latestHash) == FirstHash(record) = latestHash

\* the comparison that skips a record (sync Run, record.LastestHash == latestHash)
isUpToDate(record, latestHash) == record.LastestHash = latestHash

\* commitRecord writing the record back only when something was found
commitRecord_onlyOnHits(record, latestHash, exists, lines, r) ==
    LET upd == updateRegistry(exists, lines,
                   RegistryRecord(record.RootHash, latestHash, record.URI))
    IN  IF r.filesWithMarkers = {} /\ r.removed = {}
        THEN [log |-> "Skip", updateErr |-> "", lines |-> lines]
        ELSE [log |-> "Update", updateErr |-> upd.err, lines |-> upd.lines]

\* commitRecord writing the record back as it was loaded
commitRecord_keepHash(record, latestHash, exists, lines, r) ==
    LET upd == updateRegistry(exists, lines, record)
    IN  IF r.filesWithMarkers = {} /\ r.removed = {}
        THEN [log |-> "Skip", updateErr |-> upd.err, lines |-> upd.lines]
        ELSE [log |-> "Update", updateErr |-> upd.err, lines |-> upd.lines]

\* the end of an iteration whose diff and scan returned r without error: the
\* record is written back with the head in both branches
commitRecord(record, latestHash, exists, lines, r) ==
    LET upd == updateRegistry(exists, lines,
                   RegistryRecord(record.RootHash, latestHash, record.URI))
    IN  IF r.filesWithMarkers = {} /\ r.removed = {}
        THEN [log |-> "Skip", updateErr |-> upd.err, lines |-> upd.lines]
        ELSE [log |-> "Update", updateErr |-> upd.err, lines |-> upd.lines]

\* one iteration of the loop of the sync Run over record, with the registry
\* file as it is and the backend answering b; latest is the head's hash
syncRecord(record, exists, lines, latest, b) ==
    LET latestHash == IF b.headOK THEN latest ELSE EmptyStr
        firstHash  == FirstHash(record)
        r == listFilesWithMarkersSinceCommit(record.URI, firstHash, latestHash,
                                             b.patchOK, b.patch, b.content,
                                             b.order)
        c == commitRecord(record, latestHash, exists, lines, r)
        base == [terminal |-> "Panic", log |-> "", reported |-> ~b.cloneOK,
                 latestHash |-> EmptyStr, diffed |-> FALSE, diffErr |-> "",
                 changed |-> {}, removed |-> {}, hits |-> {}, scanned |-> {},
                 updateErr |-> "", lines |-> lines]
    IN
    IF ~b.cloneOK
    THEN base   \* getLatestCommit dereferences the nil repository
    ELSE IF isUpToDate(record, latestHash)
    THEN [base EXCEPT !.terminal = "Skip", !.log = "Skip",
                      !.reported = ~b.headOK, !.latestHash = latestHash]
    ELSE IF r.panic
    THEN [base EXCEPT !.reported = ~b.headOK, !.latestHash = latestHash,
                      !.diffed = TRUE]
    ELSE IF r.err # ""
    THEN [base EXCEPT !.terminal = "Reported", !.reported = TRUE,
                      !.latestHash = latestHash, !.diffed = TRUE,
                      !.diffErr = r.err,
                      !.changed = r.diffChanged, !.scanned = r.scanned]
    ELSE [base EXCEPT !.terminal = "Commit", !.log = c.log,
                      !.reported = (~b.headOK \/ c.updateErr # ""),
                      !.latestHash = latestHash, !.diffed = TRUE,
                      !.changed = r.diffChanged, !.removed = r.removed,
                      !.hits = r.filesWithMarkers, !.scanned = r.scanned,
                      !.updateErr = c.updateErr, !.lines = c.lines]

\* `tr4ck sync`: the registry is loaded and the loop entered
SyncStart ==
    /\ pc = "idle"
    /\ loadRegistry(fileExists, fileLines).err = ""
    /\ registry' = loadRegistry(fileExists, fileLines).records
    /\ idx' = 1
    /\ pc' = "sync"
    /\ last' = [op |-> "syncStart", err |-> "", before |-> fileLines]
    /\ UNCHANGED <<fileExists, fileLines, head>>

\* `tr4ck sync` when the registry cannot be loaded: exit status 1
SyncLoadFail ==
    /\ pc = "idle"
    /\ loadRegistry(fileExists, fileLines).err # ""
    /\ last' = [op |-> "syncStart", before |-> fileLines,
                 err |-> loadRegistry(fileExists, fileLines).err]
    /\ UNCHANGED <<fileExists, fileLines, head, pc, registry, idx>>

\* one iteration of the loop; a panic ends the process
SyncCycle ==
    /\ pc = "sync"
    /\ idx <= Len(registry)
    /\ LET record == registry[idx]
           latest == HashAt(record.URI, head[record.URI])
       IN  \E b \in BackendAnswers(record, latest) :
             LET c == syncRecord(record, fileExists, fileLines, latest, b) IN
             /\ fileLines' = c.lines
             /\ last' = [op |-> "sync", idx |-> idx, record |-> record,
                         cloneOK |-> b.cloneOK, headOK |-> b.headOK,
                         patchOK |-> b.patchOK,
                         unreadable |-> { f \in DOMAIN b.content :
                                            ~b.content[f].readable },
                         head |-> latest, cycle |-> c, before |-> fileLines]
             /\ IF c.terminal = "Panic"
                THEN pc' = "idle" /\ registry' = << >> /\ idx' = 0
                ELSE pc' = pc /\ registry' = registry /\ idx' = idx + 1
    /\ UNCHANGED <<fileExists, head>>

\* the loop has gone through every loaded record
SyncEnd ==
    /\ pc = "sync"
    /\ idx > Len(registry)
    /\ pc' = "idle"
    /\ registry' = << >>
    /\ idx' = 0
    /\ last' = [op |-> "syncEnd", before |-> fileLines]
    /\ UNCHANGED <<fileExists, fileLines, head>>

Next ==
    \/ AdvanceHead
    \/ initRegistry
    \/ Register
    \/ SyncStart
    \/ SyncLoadFail
    \/ SyncCycle
    \/ SyncEnd

Spec == Init /\ [][Next]_vars

----------------------------------------------------------------------------
(* Properties                                                               *)

\* the registry as loadRegistry reads it now, and as it read before the
\* last operation
Records == loadRegistry(fileExists, fileLines)
RecordsBefore == loadRegistry(TRUE, last.before)

\* the last operation was an iteration of the sync loop
IsCycle == last.op = "sync"

\* C1: registering a URI u that no line of an existing registry file
\* contains, when the backend resolves root revision r, succeeds and adds
\* exactly the line of record {r, r, u} after the lines that were there,
\* which stay as they were (so an empty registry holds that one line); when
\* the registry loads afterwards, its records are the former records followed
\* by {RootHash r, LastestHash r, URI u}.
C1_RegisterAppends ==
    ( /\ last.op = "register"
      /\ last.existed
      /\ last.root # EmptyStr
      /\ ~ \E i \in 1..Len(last.before) : Contains(last.before[i], last.uri) )
    => /\ last.err = ""
       /\ fileLines = Append(last.before,
              last.root \o FieldSep \o last.root \o FieldSep \o last.uri)
       /\ Records.err = "" =>
            /\ RecordsBefore.err = ""
            /\ Records.records =
                 Append(RecordsBefore.records,
                        [RootHash |-> last.root, LastestHash |-> last.root,
                         URI |-> last.uri])

C1_Witness ==
    /\ last.op = "register"
    /\ last.err = ""
    /\ Len(last.before) >= 1
    /\ Records.err = ""
    /\ Len(Records.records) = Len(last.before) + 1

\* C2: registering a URI that occurs as a substring of some line of the
\* registry fails with DuplicateError and leaves the file as it was, and so
\* does appendToRegistry for any URI found in a line of the current file; a
\* URI that was registered is still the URI of exactly one record.
C2_DuplicateRejected ==
    /\ ( /\ last.op = "register"
         /\ last.existed
         /\ \E i \in 1..Len(last.before) : Contains(last.before[i], last.uri) )
       => /\ last.err = "DuplicateError"
          /\ fileLines = last.before
          /\ ( /\ Records.err = ""
               /\ \E i \in 1..Len(RecordsBefore.records) :
                     RecordsBefore.records[i].URI = last.uri )
             => Cardinality({ i \in 1..Len(Records.records) :
                                Records.records[i].URI = last.uri }) = 1
    /\ \A u \in URIs :
         ( fileExists /\ \E i \in 1..Len(fileLines) : Contains(fileLines[i], u) )
         => LET a == appendToRegistry(fileExists, fileLines,
                                      RegistryRecord(HashAt(u, 1), HashAt(u, 1), u))
            IN  a.err = "DuplicateError" /\ a.lines = fileLines

\* a registration refused for a URI that is part of a line although no
\* record has it as its URI
C2_Witness ==
    /\ last.op = "register"
    /\ last.err = "DuplicateError"
    /\ RecordsBefore.err = ""
    /\ \A i \in 1..Len(RecordsBefore.records) :
          RecordsBefore.records[i].URI # last.uri

\* C3: no two lines of the registry file give a record with the same URI,
\* and no two records loaded by a sync run have the same URI.
C3_UniqueURI ==
    /\ \A i, j \in 1..Len(fileLines) :
         ( /\ i # j
           /\ ParseLine(fileLines[i]).err = ""
           /\ ParseLine(fileLines[j]).err = "" )
         => ParseLine(fileLines[i]).rec.URI # ParseLine(fileLines[j]).rec.URI
    /\ \A i, j \in 1..Len(registry) :
         i # j => registry[i].URI # registry[j].URI

C3_Witness ==
    /\ IsCycle
    /\ last.cycle.terminal = "Commit"
    /\ Records.err = ""
    /\ Len(Records.records) >= 2

\* C4: no operation changes the RootHash (or the position) of a record that
\* the registry holds: every record read back after the operation has the
\* RootHash it had before, an updateRegistry of a sync iteration included.
C4_RootImmutable ==
    LET old == RecordsBefore
        new == Records
    IN  (old.err = "" /\ new.err = "")
        => /\ Len(new.records) >= Len(old.records)
           /\ \A i \in 1..Len(old.records) :
                new.records[i].RootHash = old.records[i].RootHash

\* an update that wrote a head different from the root of the record
C4_Witness ==
    /\ IsCycle
    /\ last.cycle.terminal = "Commit"
    /\ last.cycle.updateErr = ""
    /\ last.record.RootHash # EmptyStr
    /\ last.record.RootHash # last.cycle.latestHash
    /\ fileLines # last.before

\* C5: an iteration that resolved a head different from the record's
\* LastestHash and whose diff and scan returned no error writes the record
\* back with LastestHash = that head, RootHash and URI as they were and the
\* other records untouched, whatever the scan found.
C5_CommitAdvances ==
    ( /\ IsCycle
      /\ last.cloneOK /\ last.headOK /\ last.patchOK
      /\ last.record.LastestHash # last.head
      /\ RevIndex(last.record.URI, FirstHash(last.record)) # 0
      /\ last.unreadable = {}
      /\ last.cycle.terminal # "Panic" )
    => /\ last.cycle.terminal = "Commit"
       /\ last.cycle.updateErr = ""
       /\ Records.err = ""
       /\ Records.records =
            [RecordsBefore.records EXCEPT ![last.idx] =
                [RootHash |-> RecordsBefore.records[last.idx].RootHash,
                 LastestHash |-> last.head,
                 URI |-> RecordsBefore.records[last.idx].URI]]

\* a commit of an iteration that found no marker and no removed path
C5_Witness ==
    /\ IsCycle
    /\ last.cycle.terminal = "Commit"
    /\ last.record.LastestHash # EmptyStr
    /\ last.cycle.hits = {}
    /\ last.cycle.removed = {}
    /\ fileLines # last.before

\* C6: an iteration that resolved a head equal to the record's non-empty
\* LastestHash ends in Skip: no diff is computed, no file is scanned and the
\* registry file is unchanged.
C6_SkipWhenUpToDate ==
    ( /\ IsCycle
      /\ last.cloneOK /\ last.headOK
      /\ last.record.LastestHash # EmptyStr
      /\ last.record.LastestHash = last.head )
    => /\ last.cycle.terminal = "Skip"
       /\ ~last.cycle.diffed
       /\ last.cycle.scanned = {}
       /\ fileLines = last.before

C6_Witness ==
    /\ IsCycle
    /\ last.cycle.terminal = "Skip"
    /\ last.headOK
    /\ last.record.LastestHash # EmptyStr
    /\ last.record.RootHash # last.record.LastestHash

\* the premise of C7: the record has no LastestHash and the head that was
\* resolved is its RootHash
C7_Case ==
    /\ IsCycle
    /\ last.cloneOK /\ last.headOK
    /\ last.record.LastestHash = EmptyStr
    /\ last.record.RootHash = last.head

\* C7 as stated: such an iteration ends in Skip at the comparison, nothing
\* is scanned and the registry is not changed.
C7_Original ==
    C7_Case => /\ last.cycle.terminal = "Skip"
               /\ last.cycle.scanned = {}
               /\ fileLines = last.before

\* C7 amended: the comparison is made with the empty LastestHash only, so
\* the iteration is not skipped: the diff from RootHash to the head is
\* computed; when it returns an error the registry is unchanged, otherwise
\* it is empty, nothing is scanned, "Skip" is logged and the record is
\* written back with LastestHash = head (RootHash and URI unchanged).
C7_EmptyLatestCommits ==
    C7_Case =>
       /\ last.cycle.diffed
       /\ last.cycle.scanned = {}
       /\ last.cycle.terminal \in {"Reported", "Commit"}
       /\ last.cycle.terminal = "Reported" =>
            /\ ~last.patchOK \/ RevIndex(last.record.URI, last.record.RootHash) = 0
            /\ fileLines = last.before
       /\ last.cycle.terminal = "Commit" =>
            /\ last.patchOK
            /\ last.cycle.log = "Skip"
            /\ Records.err = ""
            /\ Records.records =
                 [RecordsBefore.records EXCEPT ![last.idx] =
                     [RootHash |-> last.record.RootHash,
                      LastestHash |-> last.head,
                      URI |-> last.record.URI]]
            /\ fileLines # last.before

C7_Witness ==
    /\ C7_Case
    /\ last.cycle.terminal = "Commit"
    /\ fileLines # last.before

\* C8 as stated: when cloning or resolving the head fails in an iteration,
\* the failure is reported, the iteration ends without a crash and without a
\* change of the registry, and the loop goes on with the next record.
C8_Original ==
    ( IsCycle /\ (~last.cloneOK \/ ~last.headOK) )
    => /\ last.cycle.reported
       /\ last.cycle.terminal # "Panic"
       /\ fileLines = last.before
       /\ pc = "sync"
       /\ idx = last.idx + 1

\* C9: when the diff returns an error or a changed file cannot be read, the
\* iteration ends in Reported, the registry file is unchanged (the record
\* keeps its LastestHash) and the loop goes on with the next record.
C9_DiffFailureIsolated ==
    ( /\ IsCycle
      /\ last.cloneOK
      /\ last.record.LastestHash # (IF last.headOK THEN last.head ELSE EmptyStr)
      /\ \/ ~last.headOK
         \/ ~last.patchOK
         \/ RevIndex(last.record.URI, FirstHash(last.record)) = 0
         \/ last.unreadable # {} )
    => /\ last.cycle.terminal = "Reported"
       /\ last.cycle.reported
       /\ fileLines = last.before
       /\ pc = "sync"
       /\ idx = last.idx + 1
       /\ registry # << >>

\* a changed file that could not be read, in an iteration that is not the
\* last of its run
C9_Witness ==
    /\ IsCycle
    /\ last.unreadable # {}
    /\ last.cycle.terminal = "Reported"
    /\ pc = "sync"
    /\ idx <= Len(registry)

\* every non-empty LastestHash is a revision of its repository at or before
\* the head
C10_AncestorOfHead ==
    /\ Records.err = "" =>
         \A i \in 1..Len(Records.records) :
            LET rec == Records.records[i] IN
            rec.LastestHash # EmptyStr =>
               /\ rec.URI \in URIs
               /\ RevIndex(rec.URI, rec.LastestHash) \in 1..head[rec.URI]
    /\ \A i \in 1..Len(registry) :
         registry[i].LastestHash # EmptyStr =>
            RevIndex(registry[i].URI, registry[i].LastestHash)
               \in 1..head[registry[i].URI]

\* no operation moves a LastestHash to an earlier revision or to the empty
\* value
C10_NoStepBack ==
    LET old == RecordsBefore
        new == Records
    IN  (old.err = "" /\ new.err = "") =>
           \A i \in 1..Len(old.records) :
              old.records[i].LastestHash # EmptyStr =>
                 /\ new.records[i].LastestHash # EmptyStr
                 /\ RevIndex(new.records[i].URI, new.records[i].LastestHash)
                       >= RevIndex(old.records[i].URI, old.records[i].LastestHash)

\* C10: with heads that only advance along a linear history, each record's
\* non-empty LastestHash is an ancestor of or equal to its repository's head
\* in every reachable state, and no operation moves a LastestHash backwards
\* or to the empty value.
C10_MonotonicProgress == C10_AncestorOfHead /\ C10_NoStepBack

\* a record committed at a later revision than its root, behind the head
C10_Witness ==
    /\ Records.err = ""
    /\ \E i \in 1..Len(Records.records) :
          LET rec == Records.records[i] IN
          /\ rec.LastestHash # EmptyStr
          /\ rec.URI \in URIs
          /\ RevIndex(rec.URI, rec.LastestHash) >= 2
          /\ RevIndex(rec.URI, rec.LastestHash) < head[rec.URI]

----------------------------------------------------------------------------
(* The registry store on its own: load, update, init and the line format    *)

\* number of records in a sequence written to the file
MaxRecs == 2

\* number of fields in a line found in the file
MaxFields == 4

\* the records of the three shapes: URI only, URI and root, full triple
WellFormedRecords ==
    { RegistryRecord(EmptyStr, EmptyStr, u) : u \in URIs }
    \cup { RegistryRecord(HashAt(u, 1), EmptyStr, u) : u \in URIs }
    \cup { RegistryRecord(HashAt(u, 1), HashAt(u, 2), u) : u \in URIs }

\* the sequences of at most n elements of S
SeqsUpTo(S, n) == UNION { [1..k -> S] : k \in 0..n }

\* the writer loop of updateRegistry: one formatted line per record
writeRecords(records) ==
    [k \in 1..Len(records) |-> FormatRecord(records[k])]

\* the fields of a line of n fields: revisions, then the URI last
FieldsOfLine(n) == [k \in 1..n |-> IF k = n THEN U2 ELSE HashAt(U2, k)]

RECURSIVE JoinWith(_, _)
JoinWith(parts, sep) ==
    IF parts = << >> THEN EmptyStr
    ELSE IF Len(parts) = 1 THEN parts[1]
    ELSE parts[1] \o sep \o JoinWith(Tail(parts), sep)

\* white space before the first and after the last field of a line
Pads == { EmptyStr, <<" ">>, <<"\t">> }

\* white space between two fields: the current separator, one space, and
\* the tab of the earlier format
Seps == { FieldSep, <<" ">>, <<"\t">> }

RawLine(lead, sep, n, trail) == lead \o JoinWith(FieldsOfLine(n), sep) \o trail

RawLines ==
    { RawLine(l, s, n, t) : l \in Pads, s \in Seps, n \in 1..MaxFields,
                            t \in Pads }

PlainLines == { RawLine(EmptyStr, s, n, EmptyStr) : s \in Seps, n \in 1..MaxFields }

\* lines without a field: empty, or white space only
BlankLines == { EmptyStr, <<" ">>, <<"\t">>, <<" ", "\t">> }

\* registry files the store is started on: none, an empty one, one line of
\* any kind, two lines without padding, a blank line alone or after a record
InputFiles ==
    { [exists |-> FALSE, lines |-> << >>], [exists |-> TRUE, lines |-> << >>] }
    \cup { [exists |-> TRUE, lines |-> <<l>>] : l \in RawLines }
    \cup { [exists |-> TRUE, lines |-> <<l1, l2>>] : l1, l2 \in PlainLines }
    \cup { [exists |-> TRUE, lines |-> <<l>>] : l \in BlankLines }
    \cup { [exists |-> TRUE, lines |-> <<RawLine(EmptyStr, FieldSep, 3, EmptyStr), l>>] :
             l \in BlankLines }

StoreInit ==
    /\ \E f \in InputFiles : fileExists = f.exists /\ fileLines = f.lines
    /\ head = [u \in URIs |-> 1]
    /\ pc = "idle"
    /\ registry = << >>
    /\ idx = 0
    /\ last = [op |-> "none", before |-> fileLines]

\* a sequence of records is written in the line format of append and update
Save ==
    /\ \E R \in SeqsUpTo(WellFormedRecords, MaxRecs) :
          /\ fileLines' = writeRecords(R)
          /\ last' = [op |-> "save", records |-> R]
    /\ fileExists' = TRUE
    /\ UNCHANGED <<head, pc, registry, idx>>

\* loadRegistry() on the file as it is
Load ==
    /\ last' = [op |-> "load", existed |-> fileExists, before |-> fileLines,
                 res |-> loadRegistry(fileExists, fileLines)]
    /\ UNCHANGED <<fileExists, fileLines, head, pc, registry, idx>>

\* the records updateRegistry is called with
UpdateRecords == { RegistryRecord(HashAt(u, 1), HashAt(u, 2), u) : u \in URIs }

\* updateRegistry(rec) on the file as it is
Update ==
    /\ \E rec \in UpdateRecords :
          LET res == updateRegistry(fileExists, fileLines, rec) IN
          /\ fileLines' = res.lines
          /\ last' = [op |-> "update", rec |-> rec, err |-> res.err,
                       existed |-> fileExists, before |-> fileLines]
    /\ UNCHANGED <<fileExists, head, pc, registry, idx>>

StoreNext ==
    \/ Save
    \/ Load
    \/ Update
    \/ initRegistry

StoreSpec == StoreInit /\ [][StoreNext]_vars

----------------------------------------------------------------------------
(* Properties of the registry store                                         *)

\* C11: for any sequence R of records of the shapes the store accepts (URI
\* only, URI and root revision, full triple), the file written from R in
\* the line format of append and update loads without error as R: the same
\* records, the same field values, the same order.
C11_Original ==
    last.op = "save"
    => loadRegistry(fileExists, fileLines) = [err |-> "", records |-> last.records]

\* the record a line of n <= 3 fields stands for
C12_ExpectedRecord(n) ==
    IF n = 1 THEN RegistryRecord(EmptyStr, EmptyStr, FieldsOfLine(1)[1])
    ELSE IF n = 2
    THEN RegistryRecord(FieldsOfLine(2)[1], EmptyStr, FieldsOfLine(2)[2])
    ELSE RegistryRecord(FieldsOfLine(3)[1], FieldsOfLine(3)[2], FieldsOfLine(3)[3])

\* what load returns for lines of the given numbers of fields
C12_ExpectedLoad(ns) ==
    IF \E k \in 1..Len(ns) : ns[k] > 3
    THEN [err |-> "ParseError", records |-> << >>]
    ELSE [err |-> "", records |-> [k \in 1..Len(ns) |-> C12_ExpectedRecord(ns[k])]]

\* C12: load maps each line by its number of white-space-separated fields:
\* one field gives the record with only that URI, two fields give RootHash
\* then URI, three fields give RootHash, LastestHash, URI; a line with more
\* than three fields makes load fail with ParseError and no records; the
\* records come in file order.
C12_Original ==
    (last.op = "load" /\ last.existed)
    => /\ \A l \in Pads, s \in Seps, n \in 1..MaxFields, t \in Pads :
            last.before = <<RawLine(l, s, n, t)>>
            => last.res = C12_ExpectedLoad(<<n>>)
       /\ \A s1 \in Seps, n1 \in 1..MaxFields, s2 \in Seps, n2 \in 1..MaxFields :
            last.before = << RawLine(EmptyStr, s1, n1, EmptyStr),
                             RawLine(EmptyStr, s2, n2, EmptyStr) >>
            => last.res = C12_ExpectedLoad(<<n1, n2>>)

\* C13: updateRegistry matches records by exact equality of the URI: when
\* the registry loads and no record has a URI equal to rec.URI, even if
\* rec.URI is a substring of another record's URI, it fails with
\* NotFoundError and the file keeps the lines it had.
C13_UpdateNotFound ==
    ( /\ last.op = "update"
      /\ last.existed
      /\ RecordsBefore.err = ""
      /\ \A i \in 1..Len(RecordsBefore.records) :
            RecordsBefore.records[i].URI # last.rec.URI )
    => /\ last.err = "NotFoundError"
       /\ fileExists
       /\ fileLines = last.before

\* an update for a URI that is a proper substring of a record's URI
C13_Witness ==
    /\ last.op = "update"
    /\ last.err = "NotFoundError"
    /\ RecordsBefore.err = ""
    /\ \E i \in 1..Len(RecordsBefore.records) :
          /\ RecordsBefore.records[i].URI # last.rec.URI
          /\ Contains(RecordsBefore.records[i].URI, last.rec.URI)
    /\ fileLines = last.before

\* C14: init creates an empty registry file when there is none and
\* otherwise changes nothing: after init the file exists; if it existed
\* before, with any content, its lines and so its records are what they
\* were; so an init that follows an init finds the file and leaves it as the
\* first one left it.
C14_InitIdempotent ==
    last.op = "init"
    => /\ fileExists
       /\ IF last.existed
          THEN /\ fileLines = last.before
               /\ loadRegistry(fileExists, fileLines) = RecordsBefore
          ELSE /\ fileLines = << >>
               /\ loadRegistry(fileExists, fileLines)
                     = [err |-> "", records |-> << >>]

\* init run on a registry file that holds lines
C14_Witness ==
    /\ last.op = "init"
    /\ last.existed
    /\ Len(last.before) >= 1
    /\ fileLines = last.before

----------------------------------------------------------------------------
(* The change sets and the scanner on their own                             *)

\* number of file patches in a patch
MaxPatch == 2

PathGo2 == <<"b", ".", "g", "o">>

\* the paths of the two trees that are compared
DiffPaths == {PathGo, PathGo2, PathJson}

\* the file patches over these paths: additions (no from), deletions (no
\* to), modifications (from and to alike) and renames
DiffFilePatches ==
    { [from |-> f, to |-> t] :
        f \in {<< >>} \cup { <<p>> : p \in DiffPaths },
        t \in {<< >>} \cup { <<p>> : p \in DiffPaths } }
    \ { [from |-> << >>, to |-> << >>] }

\* the paths a file patch names
PathsOf(fp) == { fp.from[i] : i \in 1..Len(fp.from) }
               \cup { fp.to[i] : i \in 1..Len(fp.to) }

\* the patches between two trees: a path of the old tree is the source of
\* at most one file patch, a path of the new tree the destination of at most
\* one, and a renamed file is in one tree only
DiffPatches ==
    { p \in SeqsUpTo(DiffFilePatches, MaxPatch) :
        \A i, j \in 1..Len(p) : i # j => PathsOf(p[i]) \cap PathsOf(p[j]) = {} }

ScanInit ==
    /\ fileExists = FALSE
    /\ fileLines = << >>
    /\ head = [u \in URIs |-> MaxRev]
    /\ pc = "idle"
    /\ registry = << >>
    /\ idx = 0
    /\ last = [op |-> "none", before |-> fileLines]

\* listChangedFilesSinceCommit between two revisions of a repository whose
\* patch the backend computes
Diff ==
    /\ pc = "idle"
    /\ pc' = "done"
    /\ \E patch \in DiffPatches :
          last' = [op |-> "diff", patch |-> patch,
                   res |-> listChangedFilesSinceCommit(U1, HashAt(U1, 1),
                               HashAt(U1, 2), TRUE, patch)]
    /\ UNCHANGED <<fileExists, fileLines, head, registry, idx>>

\* the lines of the scanned files
LineFixme == <<"f", "i", "x", "m", "e">>
LineBoth  == <<"f", "i", "x", "m", "e", " ", "t", "o", "d", "o">>
LineUpper == <<"T", "O", "D", "O">>

ScanLines == {LinePlain, LineTodo, LineFixme, LineBoth, LineUpper}

\* number of lines in a scanned file
MaxLines == 2

\* the scanned files: one that cannot be opened, and files of at most
\* MaxLines lines whose last line ends with a newline or does not
ScanContents ==
    { FileContent(FALSE, << >>, TRUE) }
    \cup ( { FileContent(TRUE, ls, nl) :
               ls \in SeqsUpTo(ScanLines, MaxLines), nl \in BOOLEAN }
           \ { FileContent(TRUE, << >>, FALSE) } )

\* the marker lists: the default one and configured ones
MarkerLists ==
    { markers, <<markers[2], markers[3]>>, <<markers[3], markers[2]>> }

\* containsMarker(filePath, markers) on one file
ScanFile ==
    /\ pc = "idle"
    /\ pc' = "done"
    /\ \E content \in ScanContents, ms \in MarkerLists :
          last' = [op |-> "scanFile", content |-> content, markers |-> ms,
                   res |-> containsMarker(content, ms)]
    /\ UNCHANGED <<fileExists, fileLines, head, registry, idx>>

\* the directory names ignored when no configuration file adds any
ignoreDirs ==
    { <<"_", "_", "p", "y", "c", "a", "c", "h", "e", "_", "_">>,
      <<".", "s", "v", "n">>,
      <<".", "h", "g">>,
      <<".", "t", "o", "x">>,
      <<".", "g", "i", "t">>,
      <<".", "D", "S", "_", "S", "t", "o", "r", "e">>,
      <<".", "m", "y", "p", "y", "_", "c", "a", "c", "h", "e">>,
      <<".", "p", "y", "t", "e", "s", "t", "_", "c", "a", "c", "h", "e">>,
      <<".", "c", "a", "c", "h", "e">>,
      <<".", "i", "d", "e", "a">>,
      <<".", "v", "s", "c", "o", "d", "e">>,
      <<"v", "e", "n", "d", "o", "r">>,
      <<"b", "u", "i", "l", "d">>,
      <<"d", "i", "s", "t">>,
      <<"t", "a", "r", "g", "e", "t">>,
      <<"n", "o", "d", "e", "_", "m", "o", "d", "u", "l", "e", "s">> }

\* the directory names of the switch in the walk of listFilesWithMarkers
walkSkipDirs ==
    { <<".", "g", "i", "t">>,
      <<"n", "o", "d", "e", "_", "m", "o", "d", "u", "l", "e", "s">>,
      <<".", "i", "d", "e", "a">>,
      <<".", "v", "s", "c", "o", "d", "e">>,
      <<"v", "e", "n", "d", "o", "r">>,
      <<"b", "u", "i", "l", "d">>,
      <<"d", "i", "s", "t">>,
      <<".", "c", "a", "c", "h", "e">>,
      <<"t", "a", "r", "g", "e", "t">>,
      <<".", "D", "S", "_", "S", "t", "o", "r", "e">>,
      <<".", "s", "v", "n">>,
      <<".", "h", "g">>,
      <<".", "t", "o", "x">>,
      <<"_", "_", "p", "y", "c", "a", "c", "h", "e", "_", "_">>,
      <<".", "m", "y", "p", "y", "_", "c", "a", "c", "h", "e">>,
      <<".", "p", "y", "t", "e", "s", "t", "_", "c", "a", "c", "h", "e">> }

DirDocs   == <<"d", "o", "c", "s">>
DirSrc    == <<"s", "r", "c">>
DirVendor == <<"v", "e", "n", "d", "o", "r">>

\* loadConfig: the configured directory names are added to ignoreDirs
loadConfig(configDirs) == ignoreDirs \cup configDirs

\* the ignore_dirs lists of the configuration file
ConfigDirs == { {}, {DirDocs} }

\* a file of the working tree: the directories from the root down to it,
\* its name and its content
TreeFile(dirs, name, content) ==
    [dirs |-> dirs, name |-> name, content |-> content]

\* its path relative to the root (filepath.Rel)
RelPath(f) == JoinWith(Append(f.dirs, f.name), <<"/">>)

\* where the files of a working tree are
TreeDirs ==
    { << >>, <<DirDocs>>, <<DirVendor>>, <<DirSrc, DirVendor>>,
      <<DirVendor, DirSrc>>, <<DirDocs, DirSrc>> }

\* number of files in a working tree
MaxFiles == 2

\* the working trees: at most MaxFiles files, each at its own path
Trees ==
    { t \in { { s[i] : i \in 1..Len(s) } :
                s \in SeqsUpTo({ TreeFile(d, n, c) : d \in TreeDirs,
                                    n \in Paths, c \in Contents }, MaxFiles) } :
        \A f, g \in t : RelPath(f) = RelPath(g) => f = g }

\* listFilesWithMarkers(repo, markers): the walk leaves out the directories
\* of its switch, the files with an ignored extension are not opened, and a
\* file that cannot be read ends the walk with an error
listFilesWithMarkers(tree, ms) ==
    LET visited == { f \in tree :
                       \A i \in 1..Len(f.dirs) : f.dirs[i] \notin walkSkipDirs }
        opened  == { f \in visited : Ext(RelPath(f)) \notin ignoredExtensions }
    IN  IF \E f \in opened : containsMarker(f.content, ms).err # ""
        THEN [err |-> "IOError", files |-> {}, opened |-> opened]
        ELSE [err |-> "",
              files |-> { RelPath(f) : f \in { g \in opened :
                                  containsMarker(g.content, ms).hit } },
              opened |-> opened]

\* `tr4ck scan uri` after the configuration file was loaded
FullScan ==
    /\ pc = "idle"
    /\ pc' = "done"
    /\ \E tree \in Trees, configDirs \in ConfigDirs :
          last' = [op |-> "scan", tree |-> tree, configDirs |-> configDirs,
                   ignoreDirs |-> loadConfig(configDirs),
                   res |-> listFilesWithMarkers(tree, markers)]
    /\ UNCHANGED <<fileExists, fileLines, head, registry, idx>>

\* listFilesWithMarkersSinceCommit between two revisions: the backend
\* computes the patch, the working tree holds a content for every path (a
\* path that is gone cannot be read), and the changed files are iterated in
\* the order the map gave
IncrementalScan ==
    /\ pc = "idle"
    /\ pc' = "done"
    /\ \E patch \in DiffPatches, content \in [DiffPaths -> Contents] :
          LET d == listChangedFilesSinceCommit(U1, HashAt(U1, 1), HashAt(U1, 2),
                                               TRUE, patch)
          IN  \E order \in Orders(d.changed) :
                 last' = [op |-> "incremental", patch |-> patch,
                          content |-> content, order |-> order, diff |-> d,
                          res |-> listFilesWithMarkersSinceCommit(U1,
                                      HashAt(U1, 1), HashAt(U1, 2), TRUE,
                                      patch, content, order)]
    /\ UNCHANGED <<fileExists, fileLines, head, registry, idx>>

\* number of revisions in the history that is walked
MaxHist == 3

\* the paths of the trees of that history
WalkPaths == {PathGo, PathGo2}

\* what a revision does to the tree of its parent: nothing, or one file
\* patch that fits the tree (a source is a file of the tree, the destination
\* of an addition or of a rename is not)
RevisionPatches(tree) ==
    { << >> }
    \cup { <<[from |-> << >>, to |-> <<p>>]>> : p \in WalkPaths \ tree }
    \cup { <<[from |-> <<p>>, to |-> <<p>>]>> : p \in tree }
    \cup { <<[from |-> <<p>>, to |-> << >>]>> : p \in tree }
    \cup { <<[from |-> <<p>>, to |-> <<q>>]>> : p \in tree, q \in WalkPaths \ tree }

\* the tree of a revision, from the tree of its parent and its patch
ApplyPatch(tree, patch) ==
    (tree \ UNION { { fp.from[i] : i \in 1..Len(fp.from) } :
                      fp \in { patch[k] : k \in 1..Len(patch) } })
    \cup UNION { { fp.to[i] : i \in 1..Len(fp.to) } :
                   fp \in { patch[k] : k \in 1..Len(patch) } }

\* the tree of revision k of a history whose first revision has the tree
\* root and whose revision j + 1 has the patch patches[j]
RECURSIVE TreeAt(_, _, _)
TreeAt(root, patches, k) ==
    IF k <= 1 THEN root
    ELSE ApplyPatch(TreeAt(root, patches, k - 1), patches[k - 1])

\* the linear histories of n revisions
RECURSIVE Histories(_)
Histories(n) ==
    IF n <= 1 THEN { [root |-> t, patches |-> << >>] : t \in SUBSET WalkPaths }
    ELSE UNION { { [root |-> h.root, patches |-> Append(h.patches, p)] :
                     p \in RevisionPatches(TreeAt(h.root, h.patches, n - 1)) } :
                 h \in Histories(n - 1) }

\* the loop over the file patches of one revision in the walk: renames
\* and additions or modifications, no filter and no removed set
RECURSIVE collectFrom(_, _)
collectFrom(patch, changedFiles) ==
    IF patch = << >> THEN changedFiles
    ELSE LET from == Head(patch).from
             to   == Head(patch).to
         IN  IF from # << >> /\ to # << >> /\ from[1] # to[1]
             THEN collectFrom(Tail(patch), (changedFiles \ {from[1]}) \cup {to[1]})
             ELSE IF to # << >>
             THEN collectFrom(Tail(patch), changedFiles \cup {to[1]})
             ELSE collectFrom(Tail(patch), changedFiles)

\* the walk that adds the patch of the boundary revision as well
RECURSIVE walkFrom_inclusive(_, _, _, _)
walkFrom_inclusive(patches, k, since, changedFiles) ==
    IF k = 1 THEN IF k = since THEN [err |-> "", files |-> changedFiles]
                  ELSE [err |-> "AmbiguousHistoryError", files |-> {}]
    ELSE IF k = since
    THEN [err |-> "", files |-> collectFrom(patches[k - 1], changedFiles)]
    ELSE walkFrom_inclusive(patches, k - 1, since,
                            collectFrom(patches[k - 1], changedFiles))

\* commitIter.ForEach from revision k towards the first revision: it stops
\* at the boundary, and a revision without parent ends it with an error
RECURSIVE walkFrom(_, _, _, _)
walkFrom(patches, k, since, changedFiles) ==
    IF k = since THEN [err |-> "", files |-> changedFiles]
    ELSE IF k = 1 THEN [err |-> "AmbiguousHistoryError", files |-> {}]
    ELSE walkFrom(patches, k - 1, since,
                  collectFrom(patches[k - 1], changedFiles))

\* listChangedFilesSinceCommit(repo, sinceCommitHash) of the variant that
\* walks the history from HEAD; since = 0 is a hash that is no commit
changedFilesSinceCommit(patches, headOK, headPos, since) ==
    IF since = 0 \/ ~headOK THEN [err |-> "BackendError", files |-> {}]
    ELSE walkFrom(patches, headPos, since, {})

\* the walk on a history, with HEAD at one of its revisions and the
\* boundary at any of them or at no commit
ChangesSince ==
    /\ pc = "idle"
    /\ pc' = "done"
    /\ \E h \in Histories(MaxHist), headOK \in BOOLEAN,
           headPos \in 1..MaxHist, since \in 0..MaxHist :
          last' = [op |-> "walk", root |-> h.root, patches |-> h.patches,
                   headOK |-> headOK, headPos |-> headPos, since |-> since,
                   res |-> changedFilesSinceCommit(h.patches, headOK,
                                                   headPos, since)]
    /\ UNCHANGED <<fileExists, fileLines, head, registry, idx>>

ScanNext ==
    \/ Diff
    \/ ScanFile
    \/ FullScan
    \/ IncrementalScan
    \/ ChangesSince

ScanSpec == ScanInit /\ [][ScanNext]_vars

----------------------------------------------------------------------------
(* Properties of the change sets and the scanner                            *)

\* the kinds of file patch
IsRename(fp)       == fp.from # << >> /\ fp.to # << >> /\ fp.from[1] # fp.to[1]
IsAddition(fp)     == fp.from = << >> /\ fp.to # << >>
IsModification(fp) == fp.from # << >> /\ fp.to # << >> /\ fp.from[1] = fp.to[1]
IsDeletion(fp)     == fp.from # << >> /\ fp.to = << >>

\* the extension of the path is tracked
NotIgnored(path) == Ext(path) \notin ignoredExtensions

\* C15: for a diff that contains a rename from pathX to pathY, both with
\* extensions that are not ignored, listChangedFilesSinceCommit returns a
\* result with pathY in changed and pathX in neither changed nor removed.
C15_Original ==
    last.op = "diff"
    => \A k \in 1..Len(last.patch) :
          LET fp == last.patch[k] IN
          (IsRename(fp) /\ NotIgnored(fp.from[1]) /\ NotIgnored(fp.to[1]))
          => /\ ~last.res.panic
             /\ last.res.err = ""
             /\ fp.to[1] \in last.res.changed
             /\ fp.from[1] \notin (last.res.changed \cup last.res.removed)

\* C16: for every file patch with only a destination (an addition) or with
\* the same source and destination (a modification), whose path has an
\* extension that is not ignored, listChangedFilesSinceCommit returns a
\* result whose changed set contains the destination.
C16_Original ==
    last.op = "diff"
    => \A k \in 1..Len(last.patch) :
          LET fp == last.patch[k] IN
          ((IsAddition(fp) \/ IsModification(fp)) /\ NotIgnored(fp.to[1]))
          => /\ ~last.res.panic
             /\ last.res.err = ""
             /\ fp.to[1] \in last.res.changed

\* C17: no path with an ignored extension is in the changed set, the
\* removed set or the files a full scan reports, whatever the kind of change
\* and the content; and no path with an extension that is not ignored is
\* left out because of the filter: the destination of an addition, a
\* modification or a rename is in changed, the source of a deletion in
\* removed, and a file with a marker that the walk reaches is reported.
C17_Original ==
    /\ (last.op = "diff" /\ ~last.res.panic /\ last.res.err = "")
       => /\ \A p \in last.res.changed \cup last.res.removed : NotIgnored(p)
          /\ \A k \in 1..Len(last.patch) :
                LET fp == last.patch[k] IN
                /\ (fp.to # << >> /\ NotIgnored(fp.to[1]))
                   => fp.to[1] \in last.res.changed
                /\ (IsDeletion(fp) /\ NotIgnored(fp.from[1]))
                   => fp.from[1] \in last.res.removed
    /\ (last.op = "scan" /\ last.res.err = "")
       => /\ \A p \in last.res.files : NotIgnored(p)
          /\ \A f \in last.tree :
                ( /\ NotIgnored(RelPath(f))
                  /\ \A i \in 1..Len(f.dirs) : f.dirs[i] \notin walkSkipDirs
                  /\ containsMarker(f.content, markers).hit )
                => RelPath(f) \in last.res.files

\* the lines of the file that contain at least one of the markers
MarkerLines(content, ms) ==
    { i \in 1..Len(content.lines) :
        \E k \in 1..Len(ms) : Contains(content.lines[i], ms[k]) }

\* C18: containsMarker on a file that can be read reports a hit if and only
\* if at least one line of the file contains at least one of the markers as
\* a literal, case-sensitive substring; every line counts, the last one
\* included, whether or not the file ends with a newline.
C18_Original ==
    (last.op = "scanFile" /\ last.content.readable)
    => /\ last.res.err = ""
       /\ last.res.hit <=> MarkerLines(last.content, last.markers) # {}

\* C19: when the first line of the file that contains any marker contains
\* several of the markers, containsMarker returns the one that comes first
\* in the order of the marker list, and the marker returned occurs in that
\* line.
C19_Original ==
    ( /\ last.op = "scanFile"
      /\ last.content.readable
      /\ MarkerLines(last.content, last.markers) # {} )
    => LET hitLines == MarkerLines(last.content, last.markers)
           i    == CHOOSE i \in hitLines : \A j \in hitLines : i <= j
           line == last.content.lines[i]
           ks   == { k \in 1..Len(last.markers) : Contains(line, last.markers[k]) }
           k1   == CHOOSE k \in ks : \A j \in ks : k <= j
       IN  Cardinality(ks) >= 2
           => /\ last.res.hit
              /\ last.res.marker = last.markers[k1]
              /\ Contains(line, last.res.marker)

\* C20: whatever directory names the configuration adds to ignoreDirs, the
\* full scan returns no file that lies at any depth under a directory whose
\* name is in ignoreDirs, even if the file holds a marker: the walk skips
\* the whole subtree and opens none of its files.
C20_Original ==
    last.op = "scan"
    => \A f \in last.tree :
          (\E i \in 1..Len(f.dirs) : f.dirs[i] \in last.ignoreDirs)
          => /\ RelPath(f) \notin last.res.files
             /\ f \notin last.res.opened

\* C21: in the incremental scan the scanner is run only on paths of the
\* changed set: every file opened is a path of the changed set, a path that
\* is only in the removed set is never opened, every path of the returned
\* hit set is in the changed set, and when the call returns without error
\* the removed set it returns is the one the diff reported.
C21_ScanOnlyChanged ==
    (last.op = "incremental" /\ ~last.diff.panic /\ last.diff.err = "")
    => /\ last.res.scanned \subseteq last.diff.changed
       /\ (last.diff.removed \ last.diff.changed) \cap last.res.scanned = {}
       /\ last.res.filesWithMarkers \subseteq last.diff.changed
       /\ last.res.err = "" => last.res.removed = last.diff.removed

\* a diff with a changed file and a removed file whose path holds a marker
C21_Witness ==
    /\ last.op = "incremental"
    /\ last.res.err = ""
    /\ last.res.filesWithMarkers # {}
    /\ \E p \in last.res.removed :
          /\ p \notin last.diff.changed
          /\ containsMarker(last.content[p], markers).hit
          /\ p \notin last.res.scanned

\* the destinations of the file patches of revision k (additions,
\* modifications and renames), and the sources of its renames
DestsOf(patches, k) ==
    { fp.to[1] : fp \in { f \in { patches[k - 1][i] : i \in 1..Len(patches[k - 1]) } :
                             f.to # << >> } }
RenamedAwayIn(patches, k) ==
    { fp.from[1] : fp \in { f \in { patches[k - 1][i] : i \in 1..Len(patches[k - 1]) } :
                               IsRename(f) } }

\* C22: the walk goes from the head towards the boundary and accumulates
\* the patch of each revision it visits against its parent, the boundary's
\* own patch not included: a path is returned exactly when a visited
\* revision has it as a destination and no earlier visited revision renamed
\* it away; if the first revision, which has no parent, is reached before
\* the boundary, the call fails with AmbiguousHistoryError and returns no
\* paths; when the boundary is the head the result is empty.
C22_WalkToBoundary ==
    (last.op = "walk" /\ last.headOK /\ last.since # 0)
    => IF last.since > last.headPos
       THEN last.res = [err |-> "AmbiguousHistoryError", files |-> {}]
       ELSE /\ last.res.err = ""
            /\ last.since = last.headPos => last.res.files = {}
            /\ \A p \in WalkPaths :
                  p \in last.res.files
                  <=> \E k \in (last.since + 1)..last.headPos :
                         /\ p \in DestsOf(last.patches, k)
                         /\ \A j \in (last.since + 1)..(k - 1) :
                               p \notin RenamedAwayIn(last.patches, j)

\* a walk over two revisions that leaves out what the boundary changed
C22_Witness ==
    /\ last.op = "walk"
    /\ last.headOK
    /\ last.since >= 2
    /\ last.headPos = last.since + 1
    /\ last.res.err = ""
    /\ last.res.files # {}
    /\ DestsOf(last.patches, last.since) \ last.res.files # {}

\* C30: on a linear history the set the walk returns contains every path
\* that a revision after the boundary added or modified and that is a file
\* of the head's tree under that name, whatever renames the other revisions
\* of the range made.
C30_Original ==
    ( /\ last.op = "walk"
      /\ last.headOK
      /\ last.since \in 1..last.headPos )
    => /\ last.res.err = ""
       /\ \A p \in TreeAt(last.root, last.patches, last.headPos) :
             (\E k \in (last.since + 1)..last.headPos :
                 \E i \in 1..Len(last.patches[k - 1]) :
                    LET fp == last.patches[k - 1][i] IN
                    (IsAddition(fp) \/ IsModification(fp)) /\ fp.to[1] = p)
             => p \in last.res.files

----------------------------------------------------------------------------
(* Invocations that run at the same time, and invocations that are stopped  *)
(*                                                                          *)
(* Each invocation is a process of its own on the one registry file:        *)
(* updateRegistry loads, opens the file with O_TRUNC and writes its         *)
(* records when the buffered writer is flushed; addToRegistry looks for the *)
(* URI, resolves the root revision, and appendToRegistry looks again and    *)
(* appends.  Nothing in registry.go locks the file.                         *)

Procs == {1, 2}

\* a second location, as long as U2, so that every line has one length
U4 == <<"v", "u">>

RaceURIs == {U2, U4}

\* what an invocation is to do: write back a record after a sync cycle, or
\* register a URI
Jobs ==
    { [kind |-> "commit", uri |-> u] : u \in RaceURIs }
    \cup { [kind |-> "register", uri |-> u] : u \in RaceURIs }

\* the registry files the invocations start on
RaceFiles ==
    { << >>,
      << FormatRecord(RegistryRecord(HashAt(U2, 1), HashAt(U2, 1), U2)) >>,
      << FormatRecord(RegistryRecord(HashAt(U2, 1), HashAt(U2, 1), U2)),
         FormatRecord(RegistryRecord(HashAt(U4, 1), HashAt(U4, 1), U4)) >> }

\* the record a commit writes back: the head is the second revision
CommitRecord(u) == RegistryRecord(HashAt(u, 1), HashAt(u, 2), u)

\* the line a registration appends
RegisterLine(u) == FormatRecord(RegistryRecord(HashAt(u, 1), HashAt(u, 1), u))

\* a write of lines at the start of a file that holds lines already: the
\* lines beyond those written stay
overlayWrite(new, lines) == new \o SubSeq(lines, Len(new) + 1, Len(lines))

\* the records in memory with the record of rec.URI replaced (updateRegistry
\* before it opens the file for writing)
replaceRecord(records, rec) ==
    [records EXCEPT ![FirstMatch(records, rec.URI)] =
        RegistryRecord(rec.RootHash, rec.LastestHash, rec.URI)]

\* the records written being read again when the file is opened for writing
snapshotAtTruncate_reload(records, exists, lines, rec) ==
    IF loadRegistry(exists, lines).err = ""
       /\ FirstMatch(loadRegistry(exists, lines).records, rec.URI) # 0
    THEN replaceRecord(loadRegistry(exists, lines).records, rec)
    ELSE records

\* the records written are those loaded at the start of updateRegistry
snapshotAtTruncate(records, exists, lines, rec) == records

\* O_TRUNC leaving the content in place until the records are written
openTruncate_keep(lines) == lines

\* os.OpenFile(registryFilePath, os.O_WRONLY|os.O_TRUNC, 0644)
openTruncate(lines) == << >>

RaceInit ==
    /\ fileExists = TRUE
    /\ fileLines \in RaceFiles
    /\ head = [u \in URIs |-> 1]
    /\ pc = [p \in Procs |-> "idle"]
    /\ registry = [p \in Procs |-> << >>]
    /\ idx = 0
    /\ \E j \in [Procs -> Jobs] :
          last = [p \in Procs |->
                    [job |-> j[p], before |-> << >>, err |-> "",
                     stale |-> FALSE, truncated |-> FALSE]]

\* the invocations that have read the file and not yet written
Reading(p) == pc[p] \in {"loaded", "truncated", "checked", "appending"}

\* when p writes lines, the other invocations that have read the file hold
\* a view that is older than the file
MarkStale(p, l) ==
    [q \in Procs |->
        IF q # p /\ Reading(q) THEN [l[q] EXCEPT !.stale = TRUE] ELSE l[q]]

\* updateRegistry, first part: loadRegistry and the search for the URI
UpdateLoad(p) ==
    /\ pc[p] = "idle"
    /\ last[p].job.kind = "commit"
    /\ LET ld  == loadRegistry(fileExists, fileLines)
           rec == CommitRecord(last[p].job.uri)
       IN  IF ld.err # "" \/ FirstMatch(ld.records, rec.URI) = 0
           THEN /\ pc' = [pc EXCEPT ![p] = "done"]
                /\ last' = [last EXCEPT ![p].err =
                              IF ld.err # "" THEN "LoadError"
                              ELSE "NotFoundError",
                            ![p].before = fileLines]
                /\ UNCHANGED registry
           ELSE /\ pc' = [pc EXCEPT ![p] = "loaded"]
                /\ registry' = [registry EXCEPT ![p] =
                                   replaceRecord(ld.records, rec)]
                /\ last' = [last EXCEPT ![p].before = fileLines]
    /\ UNCHANGED <<fileExists, fileLines, head, idx>>

\* updateRegistry, second part: the file is opened with O_TRUNC
UpdateTruncate(p) ==
    /\ pc[p] = "loaded"
    /\ pc' = [pc EXCEPT ![p] = "truncated"]
    /\ registry' = [registry EXCEPT ![p] =
                       snapshotAtTruncate(registry[p], fileExists, fileLines,
                                          CommitRecord(last[p].job.uri))]
    /\ fileLines' = openTruncate(fileLines)
    /\ last' = [last EXCEPT ![p].truncated = TRUE]
    /\ UNCHANGED <<fileExists, head, idx>>

\* updateRegistry, last part: the buffered lines reach the file at Flush
UpdateFlush(p) ==
    /\ pc[p] = "truncated"
    /\ pc' = [pc EXCEPT ![p] = "done"]
    /\ fileLines' = overlayWrite(writeRecords(registry[p]), fileLines)
    /\ last' = MarkStale(p, last)
    /\ UNCHANGED <<fileExists, head, registry, idx>>

\* addToRegistry: the URI is looked for in the lines of the file, then the
\* root revision is resolved
AddCheck(p) ==
    /\ pc[p] = "idle"
    /\ last[p].job.kind = "register"
    /\ IF uriInRegistry(fileLines, last[p].job.uri)
       THEN /\ pc' = [pc EXCEPT ![p] = "done"]
            /\ last' = [last EXCEPT ![p].err = "DuplicateError",
                                    ![p].before = fileLines]
       ELSE /\ pc' = [pc EXCEPT ![p] = "checked"]
            /\ last' = [last EXCEPT ![p].before = fileLines]
    /\ UNCHANGED <<fileExists, fileLines, head, registry, idx>>

\* appendToRegistry: the file is opened again and the URI looked for
AppendCheck(p) ==
    /\ pc[p] = "checked"
    /\ IF uriInRegistry(fileLines, last[p].job.uri)
       THEN /\ pc' = [pc EXCEPT ![p] = "done"]
            /\ last' = [last EXCEPT ![p].err = "DuplicateError"]
       ELSE /\ pc' = [pc EXCEPT ![p] = "appending"]
            /\ last' = [last EXCEPT ![p].stale = FALSE]
    /\ UNCHANGED <<fileExists, fileLines, head, registry, idx>>

\* appendToRegistry: the line is written at the end of the file (O_APPEND)
AppendWrite(p) ==
    /\ pc[p] = "appending"
    /\ pc' = [pc EXCEPT ![p] = "done"]
    /\ fileLines' = Append(fileLines, RegisterLine(last[p].job.uri))
    /\ last' = MarkStale(p, last)
    /\ UNCHANGED <<fileExists, head, registry, idx>>

\* the process is killed between two of its steps
Stop(p) ==
    /\ Reading(p)
    /\ pc' = [pc EXCEPT ![p] = "stopped"]
    /\ UNCHANGED <<fileExists, fileLines, head, registry, idx, last>>

RaceNext ==
    \E p \in Procs :
        \/ UpdateLoad(p)
        \/ UpdateTruncate(p)
        \/ UpdateFlush(p)
        \/ AddCheck(p)
        \/ AppendCheck(p)
        \/ AppendWrite(p)
        \/ Stop(p)

RaceSpec == RaceInit /\ [][RaceNext]_vars

----------------------------------------------------------------------------
(* Properties of concurrent and interrupted invocations                     *)

\* p was stopped between the truncation and the writing of its update, and
\* no other invocation has started
StoppedInUpdate(p) ==
    /\ pc[p] = "stopped"
    /\ last[p].truncated
    /\ \A q \in Procs \ {p} : pc[q] = "idle"

\* C23: update is not atomic: when the process stops after updateRegistry
\* has opened the file with O_TRUNC and before its records are written, the
\* registry file is empty: the records it held are lost, and it is neither
\* the registry before the update nor the registry after it.
C23_TruncateThenStop ==
    \A p \in Procs :
       StoppedInUpdate(p)
       => /\ fileLines = << >>
          /\ loadRegistry(fileExists, fileLines).records = << >>
          /\ loadRegistry(TRUE, last[p].before).records # << >>
          /\ fileLines # last[p].before
          /\ fileLines # writeRecords(registry[p])

\* the state of the claim: an update stopped after the truncation of a
\* registry of two records
C23_Witness ==
    \E p \in Procs :
       /\ StoppedInUpdate(p)
       /\ Len(last[p].before) = 2
       /\ fileLines = << >>

\* both invocations have returned without error
BothDone == \A p \in Procs : pc[p] = "done" /\ last[p].err = ""

\* the LastestHash of the record of u in the registry file
LatestOf(u) ==
    LET recs == loadRegistry(fileExists, fileLines).records
    IN  recs[FirstMatch(recs, u)].LastestHash

\* two commits for different records, p writing what it loaded before q
\* wrote
LostCommit(p, q) ==
    /\ BothDone
    /\ last[p].job.kind = "commit"
    /\ last[q].job.kind = "commit"
    /\ last[p].job.uri # last[q].job.uri
    /\ last[p].stale

\* C24: nothing serialises two invocations on the registry file.  When two
\* commits for different records interleave so that one writes the records
\* it loaded before the other wrote, both return without error and the
\* other's change is lost; when a registration appends its line while a
\* commit holds records it loaded without that URI, both return without
\* error and the registered URI is not in the file; when two registrations
\* of one URI both return without error, the URI is in the file twice.
C24_NoSerialisation ==
    \A p, q \in Procs :
       /\ LostCommit(p, q)
          => /\ loadRegistry(fileExists, fileLines).err = ""
             /\ LatestOf(last[p].job.uri) = HashAt(last[p].job.uri, 2)
             /\ LatestOf(last[q].job.uri) = HashAt(last[q].job.uri, 1)
       /\ ( /\ BothDone
            /\ last[p].job.kind = "commit"
            /\ last[q].job.kind = "register"
            /\ ~uriInRegistry(last[p].before, last[q].job.uri)
            /\ last[p].stale )
          => ~uriInRegistry(fileLines, last[q].job.uri)
       /\ ( /\ BothDone
            /\ p # q
            /\ last[p].job.kind = "register"
            /\ last[q].job.kind = "register"
            /\ last[p].job.uri = last[q].job.uri )
          => Cardinality({ i \in 1..Len(fileLines) :
                             Contains(fileLines[i], last[p].job.uri) }) = 2

\* two commits that both returned without error, one of them lost
C24_Witness ==
    \E p, q \in Procs :
       /\ LostCommit(p, q)
       /\ LatestOf(last[q].job.uri) = HashAt(last[q].job.uri, 1)

----------------------------------------------------------------------------
(* Sync runs: properties                                                    *)

\* the terminal states of an iteration of the sync loop
Terminals == {"Skip", "Commit", "Reported"}

\* C25 as stated: the loaded records are processed one at a time in registry
\* order; every iteration ends in exactly one of Skip, Commit or Reported,
\* the loop then stands at the next record, and the run ends after the last
\* record.
C25_Original ==
    /\ IsCycle
       => /\ last.cycle.terminal \in Terminals
          /\ pc = "sync"
          /\ idx = last.idx + 1
          /\ last.record = registry[last.idx]
    /\ last.op = "syncEnd" => pc = "idle"

----------------------------------------------------------------------------
(* Consecutive sync runs                                                    *)
(* Two runs of `tr4ck sync` one after the other, with no other writer and   *)
(* no head moving; last keeps what every iteration of each run did.         *)

\* the repositories of the registry files below
RerunURIs == {U1, U2}

\* lines of a registry: written by the earlier format (no LastestHash) or by
\* addToRegistry at the first revision
RerunLines ==
    { LegacyLine(u, 1) : u \in RerunURIs }
    \cup { FormatRecord(RegistryRecord(HashAt(u, 1), HashAt(u, 1), u)) :
             u \in RerunURIs }

\* registry files at the first run: one line, or a line of U1 and a second
\* line, the same URI twice included (two registrations that both passed
\* the check of the URI)
RerunFiles ==
    { <<l>> : l \in RerunLines }
    \cup { <<l1, l2>> : l1 \in { l \in RerunLines : Contains(l, HashAt(U1, 1)) },
                        l2 \in RerunLines }

\* where the heads stand during both runs: at the first revision, or at
\* the second
RerunHeads == { [u \in URIs |-> n] : n \in 1..2 }

RerunInit ==
    /\ fileExists = TRUE
    /\ fileLines \in RerunFiles
    /\ head \in RerunHeads
    /\ pc = "idle"
    /\ registry = << >>
    /\ idx = 0
    /\ last = [op |-> "none", before |-> fileLines, start |-> fileLines,
               runs |-> << >>]

\* what the backend answers in these runs: the failures, and the diffs of at
\* most one file patch
RerunAnswers(record, latest) ==
    { b \in BackendAnswers(record, latest) : Len(b.patch) <= 1 }

\* updateRegistry starting from the lines the run loaded at its start
registryAtUpdate_snapshot(current, atStart) == atStart

\* the lines updateRegistry starts from: it loads the file anew in every
\* call, whatever the loop of the run iterates over
registryAtUpdate(current, atStart) == current

\* what a run remembers of an iteration
Outcome(record, latest, b, c) ==
    [record |-> record, head |-> latest, cloneOK |-> b.cloneOK,
     headOK |-> b.headOK, terminal |-> c.terminal, updateErr |-> c.updateErr]

\* `tr4ck sync`, first or second run: the registry is loaded
RunStart ==
    /\ pc = "idle"
    /\ Len(last.runs) < 2
    /\ loadRegistry(fileExists, fileLines).err = ""
    /\ registry' = loadRegistry(fileExists, fileLines).records
    /\ idx' = 1
    /\ pc' = "sync"
    /\ last' = [op |-> "syncStart", before |-> fileLines,
                start |-> fileLines, runs |-> Append(last.runs, << >>)]
    /\ UNCHANGED <<fileExists, fileLines, head>>

\* one iteration of the loop; a panic ends the process
RunCycle ==
    /\ pc = "sync"
    /\ idx <= Len(registry)
    /\ LET record == registry[idx]
           latest == HashAt(record.URI, head[record.URI])
           run    == Len(last.runs)
       IN  \E b \in RerunAnswers(record, latest) :
             \E c \in { syncRecord(record, fileExists,
                                    registryAtUpdate(fileLines, last.start),
                                    latest, b) } :
             \* the file is written by updateRegistry only
             /\ fileLines' = IF c.terminal = "Commit" /\ c.updateErr = ""
                             THEN c.lines ELSE fileLines
             /\ last' = [op |-> "sync", idx |-> idx, cycle |-> c,
                         before |-> fileLines, start |-> last.start,
                         runs |-> [last.runs EXCEPT ![run] =
                                     Append(@, Outcome(record, latest, b, c))]]
             /\ IF c.terminal = "Panic"
                THEN pc' = "idle" /\ registry' = << >> /\ idx' = 0
                ELSE pc' = pc /\ registry' = registry /\ idx' = idx + 1
    /\ UNCHANGED <<fileExists, head>>

\* the loop has gone through every loaded record
RunEnd ==
    /\ pc = "sync"
    /\ idx > Len(registry)
    /\ pc' = "idle"
    /\ registry' = << >>
    /\ idx' = 0
    /\ last' = [op |-> "syncEnd", before |-> fileLines, start |-> last.start,
                runs |-> last.runs]
    /\ UNCHANGED <<fileExists, fileLines, head>>

RerunNext ==
    \/ RunStart
    \/ RunCycle
    \/ RunEnd

RerunSpec == RerunInit /\ [][RerunNext]_vars

\* the last operation was an iteration of the second run over a record
\* whose iteration in the first run ended in Commit or Skip
IsRerunCycle ==
    /\ last.op = "sync"
    /\ Len(last.runs) = 2
    /\ last.idx <= Len(last.runs[1])
    /\ last.runs[1][last.idx].terminal \in {"Commit", "Skip"}

FirstRun == last.runs[1][last.idx]
SecondRun == last.runs[2][last.idx]

\* no earlier record of the registry has the URI of the record at i
FirstOfURI(records, i) == FirstMatch(records, records[i].URI) = i

C27_Original ==
    ( last.op = "load" /\ last.existed )
    => last.res.err \in {"", "ParseError"}

\* C28: an update(rec) that returns without error changes only the first
\* record whose URI is rec.URI: the registry file then loads to as many
\* records as before, the record at that place is rec, and every other
\* record is at its place with every field as before.
C28_UpdateFrame ==
    ( last.op = "update" /\ last.err = "" )
    => LET B == RecordsBefore.records
           A == Records.records
           i == FirstMatch(B, last.rec.URI)
       IN  /\ RecordsBefore.err = ""
           /\ Records.err = ""
           /\ i # 0
           /\ Len(A) = Len(B)
           /\ A[i] = last.rec
           /\ \A k \in 1..Len(B) : k # i => A[k] = B[k]

\* an update of a registry that holds the URI twice, the second record
\* unlike rec
C28_Witness ==
    /\ last.op = "update"
    /\ last.err = ""
    /\ LET B == RecordsBefore.records IN
       /\ Len(B) = 2
       /\ B[1].URI = last.rec.URI
       /\ B[2].URI = last.rec.URI
       /\ B[2] # last.rec
       /\ Records.records[2] = B[2]
       /\ Records.records[1] # B[1]

\* the iterations of the run that has just ended, the records it loaded and
\* the records of the file now
LastRun == last.runs[Len(last.runs)]
StartRecords == loadRegistry(TRUE, last.start).records

\* no other record has the URI of the record at i
OnlyOfURI(records, i) ==
    \A j \in 1..Len(records) : j # i => records[j].URI # records[i].URI

\* what the registry holds for the record at k after a run
HoldsAfterRun(k) ==
    IF LastRun[k].terminal = "Commit"
    THEN Records.records[k] =
            [StartRecords[k] EXCEPT !.LastestHash = LastRun[k].head]
    ELSE Records.records[k] = StartRecords[k]

\* C29 as stated: after a complete run with no other writer the registry
\* file holds every committed record with LastestHash = the head of its
\* iteration and every other record as it was before the run.
C29_Original ==
    last.op = "syncEnd"
    => /\ Records.err = ""
       /\ Len(Records.records) = Len(StartRecords)
       /\ \A k \in 1..Len(StartRecords) : HoldsAfterRun(k)

\* C29: after a complete run with no other writer the registry file holds
\* as many records as before; of the records that are the only ones with
\* their URI, those whose iteration committed have LastestHash = the head of
\* that iteration, RootHash and URI as before, and the others are as they
\* were before the run, whatever was committed after them.
C29_RunCommits ==
    last.op = "syncEnd"
    => /\ Records.err = ""
       /\ Len(Records.records) = Len(StartRecords)
       /\ \A k \in 1..Len(StartRecords) :
             OnlyOfURI(StartRecords, k) => HoldsAfterRun(k)

\* a run that committed two records, the first commit still in the file
C29_Witness ==
    /\ last.op = "syncEnd"
    /\ Len(LastRun) = 2
    /\ LastRun[1].terminal = "Commit"
    /\ LastRun[2].terminal = "Commit"
    /\ OnlyOfURI(StartRecords, 1)
    /\ StartRecords[1].LastestHash # LastRun[1].head
    /\ StartRecords[2].LastestHash # LastRun[2].head
    /\ Records.records[1].LastestHash = LastRun[1].head
    /\ Records.records[2].LastestHash = LastRun[2].head

====
